---- MODULE Spec2Model ----
(***************************************************************************)
(* Model of src/app.py (RedditTelegramBot): the subscription registry, the *)
(* dedup store with its trim at save time, the command layer, the poll     *)
(* runner (monitor_loop / search_for_group), the stream runner             *)
(* (stream_comments) and the start/stop lifecycle.                         *)
(*                                                                         *)
(* Concurrency is asyncio's: one event loop, tasks interleave only at an   *)
(* await that suspends.  Every action below runs from one suspension point *)
(* of a task (or of the update handler) to the next.  Updates are handled  *)
(* one at a time: run() builds the Application with its defaults           *)
(* (src/app.py:611), so a handler finishes before the next one starts.     *)
(*                                                                         *)
(* Strings are sequences of one-character strings, so that split, strip,   *)
(* lower and the word-boundary search are computed, not assumed.           *)
(***************************************************************************)
EXTENDS Integers, Sequences, FiniteSets, TLC

VARIABLES
    groups,         \* self.groups: chat id -> config record
    chat_order,     \* insertion order of the keys of self.groups (dict order)
    mark_order,     \* per chat: the ids of processed_items in the order they were inserted
    menu_states,    \* self.menu_states: chat id -> pending text-input state
    file,           \* content of bot_data.json ("none" before the first write)
    default_chat_id, \* self.default_chat_id: TELEGRAM_CHAT_ID, 0 when it is not set
    save_tick,      \* flips at every call of save_data
    reddit,         \* self.reddit is set
    is_monitoring,  \* self.is_monitoring
    monitor_task,   \* self.monitor_task: 0 (None) or a task slot
    stream_task,    \* self.stream_task: 0 (None) or a task slot
    h_pc,           \* where the update handler (or run()) is suspended
    mon,            \* poll tasks (monitor_loop coroutines), by slot
    str,            \* stream tasks (stream_comments coroutines), by slot
    world,          \* comments that exist at the content source
    pending,        \* per stream task slot: comments the open stream has yet to yield
    sent            \* number of completed send_message calls per <<chat, item id>>

vars == <<groups, chat_order, mark_order, menu_states, file, default_chat_id,
          save_tick, reddit, is_monitoring, monitor_task, stream_task, h_pc, mon,
          str, world, pending, sent>>

registryVars == <<groups, chat_order, mark_order, menu_states, file, save_tick>>
lifecycleVars == <<default_chat_id, reddit, is_monitoring, monitor_task, stream_task, h_pc>>
streamVars == <<str, world, pending, sent>>
runnerVars == <<mon, str, world, pending, sent>>

-----------------------------------------------------------------------------
(* Bounds of the model *)

\* longest comma-separated list a user sends to handle_text
MaxItems == 2
\* task slots per runner kind (tasks that can be alive at once)
MaxTasks == 2
\* ids the runners can still mark in the specification of the trim
MaxFresh == 2

\* chats that talk to the bot
ChatIds == {101, 102}

-----------------------------------------------------------------------------
(* Strings *)

Range(s) == {s[i] : i \in DOMAIN s}

ALL == <<"a", "l", "l">>
NameA == <<"a">>
NameB == <<"b">>

IsSpace(c) == c = " "
IsWordChar(c) == c \in {"a", "b", "l", "A", "B", "L", "_"}

\* str.lower(), one character
LowerChar(c) ==
    CASE c = "A" -> "a"
      [] c = "B" -> "b"
      [] c = "L" -> "l"
      [] OTHER -> c

\* str.lower()
Lower(s) == [i \in DOMAIN s |-> LowerChar(s[i])]

RECURSIVE LStrip(_)
LStrip(s) == IF s # <<>> /\ IsSpace(Head(s)) THEN LStrip(Tail(s)) ELSE s

RECURSIVE RStrip(_)
RStrip(s) ==
    IF s # <<>> /\ IsSpace(s[Len(s)]) THEN RStrip(SubSeq(s, 1, Len(s) - 1)) ELSE s

\* str.strip()
Strip(s) == RStrip(LStrip(s))

\* str.split(','): a sequence of the pieces between the commas
RECURSIVE SplitFrom(_, _, _)
SplitFrom(s, i, cur) ==
    IF i > Len(s) THEN <<cur>>
    ELSE IF s[i] = "," THEN <<cur>> \o SplitFrom(s, i + 1, <<>>)
    ELSE SplitFrom(s, i + 1, Append(cur, s[i]))

Split(s) == SplitFrom(s, 1, <<>>)

\* ', '.join(...) as a user types a list
RECURSIVE JoinComma(_)
JoinComma(toks) ==
    IF toks = <<>> THEN <<>>
    ELSE IF Len(toks) = 1 THEN toks[1]
    ELSE toks[1] \o <<",">> \o JoinComma(Tail(toks))

\* handle_text: items = [item.strip().lower() for item in text.split(',') if item.strip()]
RECURSIVE NormItems(_)
NormItems(pieces) ==
    IF pieces = <<>> THEN <<>>
    ELSE IF Strip(Head(pieces)) # <<>>
         THEN <<Lower(Strip(Head(pieces)))>> \o NormItems(Tail(pieces))
         ELSE NormItems(Tail(pieces))

ParseItems(text) == NormItems(Split(Strip(text)))

\* \b of the re module at offset i (between s[i] and s[i+1])
WordBoundary(s, i) ==
    LET before == i >= 1 /\ IsWordChar(s[i])
        after == i < Len(s) /\ IsWordChar(s[i + 1])
    IN before # after

\* contains_keyword: re.search(r'\b' + re.escape(keyword.lower()) + r'\b', text.lower())
contains_keyword(text, keyword) ==
    IF text = <<>> \/ keyword = <<>> THEN FALSE
    ELSE LET t == Lower(text)
             k == Lower(keyword)
         IN \E p \in 0..(Len(t) - Len(k)) :
                /\ SubSeq(t, p + 1, p + Len(k)) = k
                /\ WordBoundary(t, p)
                /\ WordBoundary(t, p + Len(k))

-----------------------------------------------------------------------------
(* Registry and dedup store *)

\* the cap that triggers the trim, and the number of ids the trim keeps
TrimThreshold == 5000
TrimKeep == 2000

\* get_group_config: the config of a chat seen for the first time
NewConfig ==
    [keywords |-> {}, subreddits |-> {ALL}, processed_items |-> {}, enabled |-> TRUE]

HasGroup(c) == c \in DOMAIN groups

\* the chat gets a fresh config at every call
GroupsReset(c) == (c :> NewConfig) @@ groups

\* self.groups after get_group_config(c)
GroupsWith(c) == IF HasGroup(c) THEN groups ELSE groups @@ (c :> NewConfig)
OrderWith(c) == IF HasGroup(c) THEN chat_order ELSE Append(chat_order, c)
MarksWith(c) == IF HasGroup(c) THEN mark_order ELSE mark_order @@ (c :> <<>>)

\* list(a_set): a set has no order of its own; the list is the insertion
\* order, reversed or not, rotated or not.
Rotations == {0, 1, TrimKeep}
IterOrders == [rev : BOOLEAN, rot : Rotations]

ListOfSet(ms, o) ==
    LET n == Len(ms)
        at(i) == IF o.rev THEN n + 1 - i ELSE i
    IN [i \in 1..n |-> ms[at(((i - 1 + o.rot) % n) + 1)]]

\* one element too many
LastOfPlusOne(lst, k) ==
    IF Len(lst) <= k THEN lst ELSE SubSeq(lst, Len(lst) - k, Len(lst))

\* a_list[-k:]
LastOf(lst, k) == IF Len(lst) <= k THEN lst ELSE SubSeq(lst, Len(lst) - k + 1, Len(lst))

\* the trim starts one id late
TrimmedLate(items, ms, o) ==
    IF Cardinality(items) > TrimThreshold + 1
    THEN Range(LastOf(ListOfSet(ms, o), TrimKeep))
    ELSE items

\* save_data, lines 106-107: the processed_items of one config after the trim
TrimmedItems(items, ms, o) ==
    IF Cardinality(items) > TrimThreshold
    THEN Range(LastOf(ListOfSet(ms, o), TrimKeep))
    ELSE items

\* self.groups after the loop of save_data, every set listed in the order o
SavedGroups(g, mo, o) ==
    [c \in DOMAIN g |->
        [g[c] EXCEPT !.processed_items = TrimmedItems(g[c].processed_items, mo[c], o)]]

\* the insertion order of the ids that are left after the loop of save_data
SavedMarks(g, mo, o) ==
    [c \in DOMAIN g |->
        LET kept == TrimmedItems(g[c].processed_items, mo[c], o)
            Kept(x) == x \in kept
        IN SelectSeq(mo[c], Kept)]

\* the orders in which save_data can list the sets (one when nothing is trimmed)
SaveOrders(g) ==
    IF \E c \in DOMAIN g : Cardinality(g[c].processed_items) > TrimThreshold
    THEN IterOrders
    ELSE {[rev |-> FALSE, rot |-> 0]}

\* what json.dump writes: data = {'groups': serializable_groups}
Serialized(g) == [kind |-> "groups", groups |-> g]
NoFile == [kind |-> "none"]

\* the key "default" of the registry (no chat has it)
DefaultKey == -1

\* load_data, line 73
DefaultId(d) == IF d # 0 THEN d ELSE DefaultKey

\* every field comes back as its default
GetDefault(f, key, dflt) == dflt

\* data.get(key, dflt) on a flat record f, whose keys are f.has
Get(f, key, dflt) == IF key \in f.has THEN f[key] ELSE dflt

\* load_data, lines 66-92: self.groups after bot_data.json with the content f was
\* read, d being self.default_chat_id.  A file that is missing or that json.load
\* rejects leaves the registry empty; a list of the file is held as a sequence in
\* a flat record and, being without duplicates, as its set in the keyed layout.
LoadedGroups(f, d) ==
    IF f.kind = "flat"
    THEN DefaultId(d) :>
            [keywords |-> Range(Get(f, "keywords", <<>>)),
             subreddits |-> Range(Get(f, "subreddits", <<ALL>>)),
             processed_items |-> Range(Get(f, "processed_items", <<>>)),
             enabled |-> Get(f, "enabled", TRUE)]
    ELSE IF f.kind = "groups"
    THEN [c \in DOMAIN f.groups |-> f.groups[c]]
    ELSE <<>>

\* search_for_group, line 223: processed = config['processed_items'] names the set
\* object of that moment.  The trim binds a new set to the config, so a poll task
\* that is inside its pass over the chat keeps the old one.
InPass(t) == t.st = "alive" /\ t.pc \in {"fetch", "list", "next", "send"}

Detached(m, g) ==
    [s \in DOMAIN m |->
        IF /\ InPass(m[s])
           /\ ~m[s].stale
           /\ Cardinality(g[m[s].chat].processed_items) > TrimThreshold
        THEN [m[s] EXCEPT !.stale = TRUE, !.detached = g[m[s].chat].processed_items]
        ELSE m[s]]

\* save_data called on the registry g (dict order co, insertion orders mo),
\* the poll tasks being m
save_data(g, co, mo, m) ==
    \E o \in SaveOrders(g) :
        /\ groups' = SavedGroups(g, mo, o)
        /\ chat_order' = co
        /\ mark_order' = SavedMarks(g, mo, o)
        /\ file' = Serialized(SavedGroups(g, mo, o))
        /\ save_tick' = ~save_tick
        /\ mon' = Detached(m, g)

\* a handler that changes the registry without saving it
NoSave(g, co, mo) ==
    /\ groups' = g
    /\ chat_order' = co
    /\ mark_order' = mo
    /\ UNCHANGED <<file, save_tick, mon>>

\* a handler that an exception ends before save_data, the poll tasks being m
NoSaveWith(g, co, mo, m) ==
    /\ groups' = g
    /\ chat_order' = co
    /\ mark_order' = mo
    /\ mon' = m
    /\ UNCHANGED <<file, save_tick>>

\* search_for_group, lines 221-222: keywords and subreddits name the set objects
\* of the config.  A handler that changes such a set in place (add, update,
\* remove, clear) changes what the for loops of a suspended pass iterate.
InSubsLoop(t, c) == InPass(t) /\ t.chat = c /\ ~t.sdet
InKeywordsLoop(t, c) ==
    t.st = "alive" /\ t.pc \in {"list", "next", "send"} /\ t.chat = c

\* the poll tasks after the keywords of chat c went from old to new in place:
\* an iterator no longer visits what was removed, and of what was added it
\* visits any part (X), since an element can land on either side of its position
KeywordsMutated(m, c, old, new) ==
    {[s \in DOMAIN m |->
         IF InKeywordsLoop(m[s], c)
         THEN [m[s] EXCEPT !.kws = (@ \cap new) \cup X[s]]
         ELSE m[s]] : X \in [DOMAIN m -> SUBSET (new \ old)]}

\* the poll tasks after the subreddits of chat c went from old to new in place
SubsMutated(m, c, old, new) ==
    {[s \in DOMAIN m |->
         IF InSubsLoop(m[s], c)
         THEN [m[s] EXCEPT !.subs = (@ \cap new) \cup X[s]]
         ELSE m[s]] : X \in [DOMAIN m -> SUBSET (new \ old)]}

\* the poll tasks after config['subreddits'] = {'all'} (lines 477 and 547): a
\* pass over chat c keeps the set that the config held, whose content is old
SubsRebound(m, c, old) ==
    [s \in DOMAIN m |->
        IF InSubsLoop(m[s], c)
        THEN [m[s] EXCEPT !.sdet = TRUE, !.sold = old]
        ELSE m[s]]

-----------------------------------------------------------------------------
(* Command layer *)

MenuStates == {"none", "adding_keywords", "removing_keywords", "adding_subs", "removing_subs"}

\* what a user types between the commas
RawTokens == {<<"a">>, <<" ", "B">>, <<"A", "L", "L">>, <<" ">>}

\* the texts a user sends: up to MaxItems tokens joined by commas
InputTexts ==
    {JoinComma(toks) : toks \in UNION {[1..n -> RawTokens] : n \in 1..MaxItems}}

\* for x in removed: a_set.remove(x), which raises KeyError on an absent x
RECURSIVE RemoveEach(_, _)
RemoveEach(S, removed) ==
    IF removed = <<>> THEN [set |-> S, raised |-> FALSE]
    ELSE IF Head(removed) \notin S THEN [set |-> S, raised |-> TRUE]
    ELSE RemoveEach(S \ {Head(removed)}, Tail(removed))

\* [x for x in items if x in S]
InOf(items, S) == LET In(x) == x \in S IN SelectSeq(items, In)
\* [x for x in items if x not in S]
NotInOf(items, S) == LET Out(x) == x \notin S IN SelectSeq(items, Out)

\* handle_text, state adding_subs: config['subreddits'] afterwards
AddedSubs(subs, items) ==
    LET upd == subs \cup Range(NotInOf(items, subs))
    IN IF ALL \in upd /\ Cardinality(upd) > 1 THEN upd \ {ALL} ELSE upd

\* handle_text, state removing_subs: config['subreddits'] afterwards
RemovedSubs(subs, items) ==
    LET r == RemoveEach(subs, InOf(items, subs))
    IN IF r.raised THEN r
       ELSE [set |-> IF r.set = {} THEN {ALL} ELSE r.set, raised |-> FALSE]

\* handle_text, state adding_keywords
AddedKeywords(kws, items) == kws \cup Range(NotInOf(items, kws))

\* handle_text, state removing_keywords
RemovedKeywords(kws, items) == RemoveEach(kws, InOf(items, kws))

Idle == h_pc = "idle"

\* /start
start_cmd(c) ==
    /\ Idle
    /\ save_data(GroupsWith(c), OrderWith(c), MarksWith(c), mon)
    /\ UNCHANGED <<menu_states, lifecycleVars, streamVars>>

\* /menu
menu(c) ==
    /\ Idle
    /\ NoSave(GroupsWith(c), OrderWith(c), MarksWith(c))
    /\ UNCHANGED <<menu_states, lifecycleVars, streamVars>>

\* /status
status_cmd(c) ==
    /\ Idle
    /\ NoSave(GroupsWith(c), OrderWith(c), MarksWith(c))
    /\ UNCHANGED <<menu_states, lifecycleVars, streamVars>>

\* callback_handler for the buttons that neither start nor stop monitoring
callback_handler(c, data) ==
    LET g == GroupsWith(c)
        co == OrderWith(c)
        mo == MarksWith(c)
        config == g[c]
    IN
    /\ Idle
    /\ UNCHANGED <<lifecycleVars, streamVars>>
    /\ CASE data = "add_kw" ->
              /\ menu_states' = [menu_states EXCEPT ![c] = "adding_keywords"]
              /\ NoSave(g, co, mo)
         [] data = "remove_kw" ->
              /\ menu_states' = IF config.keywords = {} THEN menu_states
                                ELSE [menu_states EXCEPT ![c] = "removing_keywords"]
              /\ NoSave(g, co, mo)
         [] data \in {"list_kw", "list_sub", "status"} ->
              /\ UNCHANGED menu_states
              /\ NoSave(g, co, mo)
         [] data = "clear_kw" ->
              /\ UNCHANGED menu_states
              /\ \E m \in KeywordsMutated(mon, c, config.keywords, {}) :
                     save_data([g EXCEPT ![c].keywords = {}], co, mo, m)
         [] data = "add_sub" ->
              /\ menu_states' = [menu_states EXCEPT ![c] = "adding_subs"]
              /\ NoSave(g, co, mo)
         [] data = "remove_sub" ->
              /\ menu_states' = IF config.subreddits = {} THEN menu_states
                                ELSE [menu_states EXCEPT ![c] = "removing_subs"]
              /\ NoSave(g, co, mo)
         [] data = "clear_sub" ->
              /\ UNCHANGED menu_states
              /\ save_data([g EXCEPT ![c].subreddits = {ALL}], co, mo,
                           SubsRebound(mon, c, config.subreddits))
         [] data = "toggle" ->
              /\ UNCHANGED menu_states
              /\ save_data([g EXCEPT ![c].enabled = ~config.enabled], co, mo, mon)

RegistryButtons ==
    {"add_kw", "remove_kw", "list_kw", "clear_kw", "add_sub", "remove_sub",
     "list_sub", "clear_sub", "status", "toggle"}

\* handle_text: a text message while a text-input state is pending for the chat.
\* replied is whether the reply_text that precedes the reset of the state went through.
handle_text(c, text, replied) ==
    LET g == GroupsWith(c)
        co == OrderWith(c)
        mo == MarksWith(c)
        config == g[c]
        state == menu_states[c]
        items == ParseItems(text)
        reset == IF replied THEN [menu_states EXCEPT ![c] = "none"] ELSE menu_states
    IN
    /\ Idle
    /\ state # "none"
    /\ UNCHANGED <<lifecycleVars, streamVars>>
    /\ IF items = <<>>
       THEN /\ UNCHANGED menu_states
            /\ NoSave(g, co, mo)
       ELSE CASE state = "adding_keywords" ->
                   LET new == AddedKeywords(config.keywords, items)
                   IN /\ \E m \in KeywordsMutated(mon, c, config.keywords, new) :
                             save_data([g EXCEPT ![c].keywords = new], co, mo, m)
                      /\ menu_states' = reset
              [] state = "removing_keywords" ->
                   LET r == RemovedKeywords(config.keywords, items)
                   IN \E m \in KeywordsMutated(mon, c, config.keywords, r.set) :
                         IF r.raised
                         THEN /\ NoSaveWith([g EXCEPT ![c].keywords = r.set], co, mo, m)
                              /\ UNCHANGED menu_states
                         ELSE /\ save_data([g EXCEPT ![c].keywords = r.set], co, mo, m)
                              /\ menu_states' = reset
              [] state = "adding_subs" ->
                   LET new == AddedSubs(config.subreddits, items)
                   IN /\ \E m \in SubsMutated(mon, c, config.subreddits, new) :
                             save_data([g EXCEPT ![c].subreddits = new], co, mo, m)
                      /\ menu_states' = reset
              [] state = "removing_subs" ->
                   LET r == RemovedSubs(config.subreddits, items)
                       left == RemoveEach(config.subreddits, InOf(items, config.subreddits)).set
                   IN \E m \in SubsMutated(mon, c, config.subreddits, left) :
                         IF r.raised
                         THEN /\ NoSaveWith([g EXCEPT ![c].subreddits = r.set], co, mo, m)
                              /\ UNCHANGED menu_states
                         ELSE /\ save_data([g EXCEPT ![c].subreddits = r.set], co, mo,
                                           IF left = {} THEN SubsRebound(m, c, left) ELSE m)
                              /\ menu_states' = reset

-----------------------------------------------------------------------------
(* Tasks *)

Slots == 1..MaxTasks

\* a poll task that is not running (never created, finished or cancelled).
\* subs and kws are what the iterators of the two for loops have yet to visit,
\* sn and kn the sizes that the iterators saw when they were created, and
\* sdet, sold tell whether the name subreddits of search_for_group denotes a set
\* that the registry no longer holds, and the content of that set.
\* tried and erred are kept for the properties only: the <<chat, phase, source>>
\* whose fetch the current cycle has started, and whether a fetch or a listing
\* of the current cycle has raised.
DeadMon ==
    [st |-> "dead", cancel |-> FALSE, pc |-> "none", todo |-> <<>>, chat |-> 0,
     phase |-> "none", subs |-> {}, sub |-> <<>>, kws |-> {}, kw |-> <<>>,
     items |-> <<>>, item |-> 0, stale |-> FALSE, detached |-> {},
     sn |-> 0, kn |-> 0, sdet |-> FALSE, sold |-> {},
     tried |-> {}, erred |-> FALSE]

\* asyncio.create_task(self.monitor_loop())
NewMon == [DeadMon EXCEPT !.st = "alive", !.pc = "start"]

\* a stream task that is not running (fired: the chats that this task has
\* sent the current comment to, kept for the properties only)
DeadStr ==
    [st |-> "dead", cancel |-> FALSE, pc |-> "none", subs |-> {}, item |-> 0,
     idx |-> 0, n |-> 0, chat |-> 0, kw |-> <<>>, kws |-> {}, fired |-> {}]

\* asyncio.create_task(self.stream_comments())
NewStr == [DeadStr EXCEPT !.st = "alive", !.pc = "start"]

-----------------------------------------------------------------------------
(* Content source *)

\* the comments that can be published while the bot runs
Comment1 == [id |-> 1, kind |-> "comment", sub |-> <<"A">>, title |-> <<>>,
             body |-> <<"a", " ", "B">>]
Comment2 == [id |-> 2, kind |-> "comment", sub |-> <<"b">>, title |-> <<>>,
             body |-> <<"a", "b">>]
Comments == {Comment1, Comment2}

\* the posts of the last day
Post3 == [id |-> 3, kind |-> "post", sub |-> <<"b">>, title |-> <<"B", "-", "a">>,
          body |-> <<>>]
Posts == {Post3}

\* the comments that are published in the specification of the trim: their ids
\* are the ones that no set holds yet
FreshComments ==
    {[id |-> TrimThreshold + i, kind |-> "comment", sub |-> <<"b">>, title |-> <<>>,
      body |-> <<"A">>] : i \in 1..MaxFresh}

\* the item that a listing or the stream hands to the runner under an id
ItemOf(id) == CHOOSE x \in world \cup Posts : x.id = id

\* the items of a set, oldest id first
RECURSIVE SortedById(_)
SortedById(S) ==
    IF S = {} THEN <<>>
    ELSE LET x == CHOOSE y \in S : \A z \in S : y.id <= z.id
         IN <<x.id>> \o SortedById(S \ {x})

\* an item of subreddit display name d is listed under the source name sub
InSource(d, sub) == sub = ALL \/ Lower(d) = sub

\* subreddit.search(keyword, sort='new', time_filter='day', limit): the source's
\* search is looser than the local rule, so every post of the source may come back
SearchListing(sub) == SortedById({x \in Posts : InSource(x.sub, sub)})

\* subreddit.comments(limit): the recent comments of the source
CommentListing(sub) == SortedById({x \in world : InSource(x.sub, sub)})

\* search_for_group, lines 238-243 and 265: the local match of an item
LocalMatch(item, keyword) ==
    IF item.kind = "post"
    THEN \/ contains_keyword(item.title, keyword)
         \/ (item.body # <<>> /\ contains_keyword(item.body, keyword))
    ELSE contains_keyword(item.body, keyword)

-----------------------------------------------------------------------------
(* Poll runner: monitor_loop and search_for_group *)

\* the set that the name processed of search_for_group denotes
PollProcessed(t) ==
    IF t.stale THEN t.detached ELSE groups[t.chat].processed_items

\* the poll task between two cycles or finished
AtCycleEnd(t) ==
    [DeadMon EXCEPT !.st = "alive", !.cancel = t.cancel, !.pc = "cycle_end",
                    !.tried = t.tried, !.erred = t.erred]

\* the set that the name subreddits of search_for_group denotes (line 222)
PollSubs(t) == IF t.sdet THEN t.sold ELSE groups[t.chat].subreddits

\* the set that the name keywords of search_for_group denotes (line 221): no
\* handler binds another set to the config
PollKeywords(t) == groups[t.chat].keywords

\* the RuntimeError of the loop over the sources leaves search_for_group and is
\* caught in monitor_loop, lines 357-359: the cycle is over without a save and
\* the task sleeps; todo keeps the chats that the cycle has not come to
Aborted(t) == [AtCycleEnd(t) EXCEPT !.pc = "sleep", !.todo = t.todo]

RECURSIVE NextGroup(_, _)
RECURSIVE IterSubs(_, _, _)

\* for sub_name in subreddits (lines 226-227 and 255-256), S being the names
\* not visited yet: the next await is the fetch of some source, or the loop is
\* over.  The iterator of a set raises RuntimeError when the size of the set is
\* not the one it saw at its creation.
IterSubs(t, phase, S) ==
    IF t.sn # Cardinality(PollSubs(t)) THEN {Aborted(t)}
    ELSE IF ~is_monitoring \/ S = {}
    THEN IF phase = "posts"
         THEN IterSubs(t, "comments", PollSubs(t))
         ELSE NextGroup(t, t.todo)
    ELSE {[t EXCEPT !.pc = "fetch", !.phase = phase, !.sub = x, !.subs = S \ {x},
                    !.kws = {}, !.kw = <<>>, !.items = <<>>, !.item = 0, !.kn = 0,
                    !.tried = @ \cup {<<t.chat, phase, x>>}] : x \in S}

\* for keyword in keywords (lines 230-231 and 259-260), K being the keywords
\* not visited yet: the next await is the first page of the listing.  The
\* RuntimeError of this iterator is raised inside the try and caught at line
\* 250 or 271, and the loop over the sources goes on.
IterKeywords(t, K) ==
    IF t.kn # Cardinality(PollKeywords(t))
    THEN IterSubs([t EXCEPT !.erred = TRUE], t.phase, t.subs)
    ELSE IF ~is_monitoring \/ K = {}
    THEN IterSubs(t, t.phase, t.subs)
    ELSE {[t EXCEPT !.pc = "list", !.kw = k, !.kws = K \ {k}, !.items = <<>>,
                    !.item = 0] : k \in K}

\* the body of the async for (lines 233-249 and 262-270) over the ids that the
\* page still holds: an id in processed is skipped without an await
RECURSIVE IterItems(_, _)
IterItems(t, ids) ==
    IF ids = <<>> THEN IterKeywords(t, t.kws)
    ELSE IF ~is_monitoring THEN IterKeywords(t, {})
    ELSE IF Head(ids) \in PollProcessed(t) THEN IterItems(t, Tail(ids))
    ELSE IF LocalMatch(ItemOf(Head(ids)), t.kw)
         THEN {[t EXCEPT !.pc = "send", !.item = Head(ids), !.items = Tail(ids)]}
         ELSE {[t EXCEPT !.pc = "next", !.item = 0, !.items = Tail(ids)]}

\* monitor_loop, lines 348-350, and the guard of search_for_group, line 218
NextGroup(t, todo) ==
    IF todo = <<>> \/ ~is_monitoring THEN {AtCycleEnd(t)}
    ELSE LET c == Head(todo)
         IN IF ~groups[c].enabled \/ groups[c].keywords = {}
            THEN NextGroup(t, Tail(todo))
            ELSE IterSubs([t EXCEPT !.chat = c, !.todo = Tail(todo), !.stale = FALSE,
                                    !.detached = {}, !.sdet = FALSE, !.sold = {},
                                    !.sn = Cardinality(groups[c].subreddits)],
                          "posts", groups[c].subreddits)

\* the exception ends the pass over the destination
AbortOnError(t) == NextGroup([t EXCEPT !.erred = TRUE], t.todo)

\* search_for_group, lines 250-252 and 271-272: an exception of the fetch or of
\* the listing is logged and the loop over the sources goes on
OnFetchError(t) == IterSubs([t EXCEPT !.erred = TRUE], t.phase, t.subs)

Runnable(t) == t.st = "alive" /\ ~t.cancel

\* the poll task goes on to its next await, t being one of the states it can
\* reach; at the end of a cycle it saves and sleeps, or ends when monitoring is off
PollGoesTo(s, t) ==
    IF t.pc = "cycle_end"
    THEN IF is_monitoring
         THEN /\ save_data(groups, chat_order, mark_order,
                           [mon EXCEPT ![s] = [t EXCEPT !.pc = "sleep"]])
              /\ UNCHANGED menu_states
         ELSE /\ mon' = [mon EXCEPT ![s] = DeadMon]
              /\ UNCHANGED registryVars
    ELSE /\ mon' = [mon EXCEPT ![s] = t]
         /\ UNCHANGED registryVars

\* monitor_loop from its start or from a sleep: the head of the while loop
MonitorLoop(s) ==
    /\ Runnable(mon[s])
    /\ mon[s].pc \in {"start", "sleep"}
    /\ UNCHANGED <<lifecycleVars, streamVars>>
    /\ IF ~is_monitoring
       THEN /\ mon' = [mon EXCEPT ![s] = DeadMon]
            /\ UNCHANGED registryVars
       ELSE IF DOMAIN groups = {}
       THEN /\ mon' = [mon EXCEPT ![s].pc = "sleep", ![s].tried = {}, ![s].erred = FALSE]
            /\ UNCHANGED registryVars
       ELSE \E t \in NextGroup([mon[s] EXCEPT !.tried = {}, !.erred = FALSE], chat_order) :
               PollGoesTo(s, t)

\* search_for_group, lines 229 and 258: await self.reddit.subreddit(sub_name)
\* returns or raises
PollFetch(s, ok) ==
    /\ Runnable(mon[s])
    /\ mon[s].pc = "fetch"
    /\ UNCHANGED <<lifecycleVars, streamVars>>
    /\ \E t \in (IF ok THEN IterKeywords([mon[s] EXCEPT !.kn = Cardinality(PollKeywords(mon[s]))],
                                         PollKeywords(mon[s]))
                 ELSE OnFetchError(mon[s])) :
           PollGoesTo(s, t)

\* search_for_group, lines 232 and 261: the first page of the listing arrives,
\* or the request raises
PollList(s, ok) ==
    /\ Runnable(mon[s])
    /\ mon[s].pc = "list"
    /\ UNCHANGED <<lifecycleVars, streamVars>>
    /\ LET page == IF mon[s].phase = "posts" THEN SearchListing(mon[s].sub)
                   ELSE CommentListing(mon[s].sub)
       IN \E t \in (IF ok THEN IterItems(mon[s], page)
                    ELSE OnFetchError(mon[s])) :
              PollGoesTo(s, t)

\* search_for_group, lines 247-249 and 269-270: the sleeps between two items are over
PollNext(s) ==
    /\ Runnable(mon[s])
    /\ mon[s].pc = "next"
    /\ UNCHANGED <<lifecycleVars, streamVars>>
    /\ \E t \in IterItems(mon[s], mon[s].items) : PollGoesTo(s, t)

\* one dedup set for all chats
MarkedEverywhere(g, c, id) ==
    [d \in DOMAIN g |-> [g[d] EXCEPT !.processed_items = @ \cup {id}]]

\* set.add on the set of a chat
Marked(g, c, id) == [g EXCEPT ![c].processed_items = @ \cup {id}]
MarkedOrder(g, mo, c, id) ==
    IF id \in g[c].processed_items THEN mo ELSE [mo EXCEPT ![c] = Append(@, id)]

\* one more completed send_message(c, id)
Counted(c, id) ==
    IF <<c, id>> \in DOMAIN sent
    THEN [sent EXCEPT ![<<c, id>>] = @ + 1]
    ELSE sent @@ (<<c, id>> :> 1)

SentCount(c, id) == IF <<c, id>> \in DOMAIN sent THEN sent[<<c, id>>] ELSE 0

\* search_for_group, lines 245-246 and 267-268: send_message returns, whether the
\* message went out or not, and the id is added to processed
PollSent(s) ==
    /\ Runnable(mon[s])
    /\ mon[s].pc = "send"
    /\ UNCHANGED <<lifecycleVars, str, world, pending, menu_states, file, save_tick,
                   chat_order>>
    /\ sent' = Counted(mon[s].chat, mon[s].item)
    /\ IF mon[s].stale
       THEN /\ mon' = [mon EXCEPT ![s].pc = "next", ![s].item = 0,
                                  ![s].detached = @ \cup {mon[s].item}]
            /\ UNCHANGED <<groups, mark_order>>
       ELSE /\ mon' = [mon EXCEPT ![s].pc = "next", ![s].item = 0]
            /\ groups' = Marked(groups, mon[s].chat, mon[s].item)
            /\ mark_order' = MarkedOrder(groups, mark_order, mon[s].chat, mon[s].item)

-----------------------------------------------------------------------------
(* Stream runner: stream_comments *)

\* the sources of all groups, enabled or not
AllSubsOfAll(g) == UNION {g[c].subreddits : c \in DOMAIN g}

\* lines 284-287: the sources of all enabled groups
AllSubs(g) == UNION {g[c].subreddits : c \in {d \in DOMAIN g : g[d].enabled}}

\* the comments that a stream over the sources S yields
Streams(S, cm) == \E sub \in S : InSource(cm.sub, sub)

\* the id is not added and the loop over the keywords goes on
NoMarkNoBreak(items, id, rest) == [items |-> items, rest |-> rest]

\* lines 328-331: after send_message the id is added and the loop over the
\* keywords is left; the result is the set of the chat and the keywords that the
\* loop still visits
MarkAndBreak(items, id, rest) == [items |-> items \cup {id}, rest |-> {}]

\* lines 322-327, K being the keywords of the chat that the loop has yet to visit:
\* the loop stops at the await of the first send_message, if there is one.  The
\* keywords are visited in no particular order, so any matching one can come first.
StreamKeywords(t, g, c, K) ==
    IF t.item \in g[c].processed_items THEN {}
    ELSE {[t EXCEPT !.pc = "send", !.chat = c, !.kw = k, !.kws = K \ {k}] :
             k \in {x \in K : contains_keyword(ItemOf(t.item).body, x)}}

\* lines 313-319: for chat_id, config in self.groups.items(), from position i
RECURSIVE StreamGroups(_, _, _, _)
StreamGroups(t, g, co, i) ==
    IF i > Len(co)
    THEN {[t EXCEPT !.pc = "wait", !.item = 0, !.idx = 0, !.n = 0, !.chat = 0,
                    !.kw = <<>>, !.kws = {}, !.fired = {}]}
    ELSE LET c == co[i]
             sub_name == Lower(ItemOf(t.item).sub)
         IN IF \/ ~g[c].enabled
               \/ (ALL \notin g[c].subreddits /\ sub_name \notin g[c].subreddits)
            THEN StreamGroups(t, g, co, i + 1)
            ELSE LET stops == StreamKeywords([t EXCEPT !.idx = i], g, c, g[c].keywords)
                 IN IF stops = {} THEN StreamGroups(t, g, co, i + 1) ELSE stops

\* the stream task is over
Terminated(t) == DeadStr

\* the stream task back at the head of its while loop after a sleep
Sleeping(t) == [DeadStr EXCEPT !.st = "alive", !.cancel = t.cancel, !.pc = "sleep"]

\* stream_comments from its start or from a sleep: lines 278-295
StreamLoop(s) ==
    /\ Runnable(str[s])
    /\ str[s].pc \in {"start", "sleep"}
    /\ UNCHANGED <<registryVars, lifecycleVars, mon, world, pending, sent>>
    /\ IF ~is_monitoring THEN str' = [str EXCEPT ![s] = DeadStr]
       ELSE IF AllSubs(groups) = {} THEN str' = [str EXCEPT ![s] = Sleeping(str[s])]
       ELSE str' = [str EXCEPT ![s] = [Sleeping(str[s]) EXCEPT !.pc = "open",
                                                              !.subs = AllSubs(groups)]]

\* lines 295-303: await self.reddit.subreddit(sub_string) returns and the stream
\* opens, skipping what exists, or the call raises
StreamOpen(s, ok) ==
    /\ Runnable(str[s])
    /\ str[s].pc = "open"
    /\ UNCHANGED <<registryVars, lifecycleVars, mon, world, sent>>
    /\ pending' = [pending EXCEPT ![s] = {}]
    /\ IF ok THEN str' = [str EXCEPT ![s].pc = "wait"]
       ELSE str' = [str EXCEPT ![s] = Sleeping(str[s])]

\* line 303 raises: the connection drops
StreamDrop(s) ==
    /\ Runnable(str[s])
    /\ str[s].pc = "wait"
    /\ UNCHANGED <<registryVars, lifecycleVars, mon, world, sent>>
    /\ pending' = [pending EXCEPT ![s] = {}]
    /\ str' = [str EXCEPT ![s] = Sleeping(str[s])]

\* lines 303-327: the stream yields a comment, which is matched against the groups
\* up to the first send_message
StreamComment(s, id) ==
    /\ Runnable(str[s])
    /\ str[s].pc = "wait"
    /\ id \in pending[s]
    /\ UNCHANGED <<registryVars, lifecycleVars, mon, world, sent>>
    /\ IF ~is_monitoring
       THEN /\ str' = [str EXCEPT ![s] = DeadStr]
            /\ pending' = [pending EXCEPT ![s] = {}]
       ELSE /\ pending' = [pending EXCEPT ![s] = @ \ {id}]
            /\ \E t \in StreamGroups([str[s] EXCEPT !.item = id, !.n = Len(chat_order)],
                                     groups, chat_order, 1) :
                   str' = [str EXCEPT ![s] = t]

\* lines 327-331 and the rest of the loops: send_message returns, the id is
\* added, and the loop over the groups goes on; a dict that grew in the meantime
\* raises RuntimeError, which ends the stream (lines 333-335)
StreamSent(s) ==
    LET t == str[s]
        r == MarkAndBreak(groups[t.chat].processed_items, t.item, t.kws)
        g == [groups EXCEPT ![t.chat].processed_items = r.items]
        more == StreamKeywords(t, g, t.chat, r.rest)
    IN
    /\ Runnable(t)
    /\ t.pc = "send"
    /\ UNCHANGED <<lifecycleVars, mon, world, menu_states, file, save_tick, chat_order>>
    /\ sent' = Counted(t.chat, t.item)
    /\ groups' = g
    /\ mark_order' = IF r.items = groups[t.chat].processed_items THEN mark_order
                     ELSE MarkedOrder(groups, mark_order, t.chat, t.item)
    /\ IF more # {}
       THEN /\ \E t2 \in more : str' = [str EXCEPT ![s] = [t2 EXCEPT !.fired = @ \cup {t.chat}]]
            /\ UNCHANGED pending
       ELSE IF Len(chat_order) # t.n
       THEN /\ str' = [str EXCEPT ![s] = Sleeping(t)]
            /\ pending' = [pending EXCEPT ![s] = {}]
       ELSE /\ \E t2 \in StreamGroups([t EXCEPT !.fired = @ \cup {t.chat}], g, chat_order,
                                        t.idx + 1) :
                   str' = [str EXCEPT ![s] = t2]
            /\ UNCHANGED pending

\* a comment appears at the content source; the open streams that cover its
\* subreddit will yield it
Publish(cm) ==
    /\ cm \notin world
    /\ world' = world \cup {cm}
    /\ pending' = [s \in Slots |->
                     IF /\ str[s].st = "alive"
                        /\ str[s].pc \in {"wait", "send"}
                        /\ Streams(str[s].subs, cm)
                     THEN pending[s] \cup {cm.id}
                     ELSE pending[s]]
    /\ UNCHANGED <<registryVars, lifecycleVars, mon, str, sent>>

\* Task.cancel() reaches a task at the await where it is suspended: CancelledError
\* is not an Exception, so no handler of the runners catches it and the task ends
MonitorCancelled(s) ==
    /\ mon[s].st = "alive"
    /\ mon[s].cancel
    /\ mon' = [mon EXCEPT ![s] = DeadMon]
    /\ UNCHANGED <<registryVars, lifecycleVars, streamVars>>

StreamCancelled(s) ==
    /\ str[s].st = "alive"
    /\ str[s].cancel
    /\ str' = [str EXCEPT ![s] = DeadStr]
    /\ pending' = [pending EXCEPT ![s] = {}]
    /\ UNCHANGED <<registryVars, lifecycleVars, mon, world, sent>>

-----------------------------------------------------------------------------
(* Lifecycle: start_monitoring, stop_monitoring, run *)

FreeSlots(tasks) == {s \in Slots : tasks[s].st = "dead"}
LowestFree(tasks) == CHOOSE s \in FreeSlots(tasks) : \A x \in FreeSlots(tasks) : s <= x

\* the guard is missing
StartAlways == FALSE

\* start_monitoring, line 555: the call returns at once
StartIsNoOp == is_monitoring

\* start_monitoring, lines 561-562
CreateTasks ==
    /\ FreeSlots(mon) # {}
    /\ FreeSlots(str) # {}
    /\ monitor_task' = LowestFree(mon)
    /\ stream_task' = LowestFree(str)
    /\ mon' = [mon EXCEPT ![LowestFree(mon)] = NewMon]
    /\ str' = [str EXCEPT ![LowestFree(str)] = NewStr]

\* setup_reddit after the old client is closed: asyncpraw.Reddit(...) returns
\* (ok) or raises, and start_monitoring goes on or is left by the exception
SetupAndLaunch(ok, back) ==
    IF ok
    THEN /\ reddit' = TRUE
         /\ CreateTasks
         /\ h_pc' = "idle"
    ELSE /\ h_pc' = back
         /\ UNCHANGED <<reddit, monitor_task, stream_task, mon, str>>

\* start_monitoring up to its first await that suspends
start_monitoring(ok) ==
    IF StartIsNoOp
    THEN UNCHANGED <<lifecycleVars, mon, str>>
    ELSE /\ is_monitoring' = TRUE
         /\ IF reddit
            THEN /\ h_pc' = "start_setup"
                 /\ UNCHANGED <<reddit, monitor_task, stream_task, mon, str>>
            ELSE SetupAndLaunch(ok, "idle")

\* start_monitoring resumes in setup_reddit, line 139: close() returned (and the
\* constructor returns or raises) or raised
StartResume(ok) ==
    /\ h_pc = "start_setup"
    /\ UNCHANGED is_monitoring
    /\ SetupAndLaunch(ok, "idle")
    /\ UNCHANGED <<registryVars, default_chat_id, world, pending, sent>>

Cancel(tasks, s) ==
    IF s # 0 /\ tasks[s].st = "alive" THEN [tasks EXCEPT ![s].cancel = TRUE] ELSE tasks

Alive(tasks, s) == s # 0 /\ tasks[s].st = "alive"

\* the stream task is left to itself
StopStreamForgotten ==
    /\ str' = str
    /\ h_pc' = "idle"

\* stop_monitoring, lines 576-581: the stream task is cancelled and awaited
StopStream ==
    /\ str' = Cancel(str, stream_task)
    /\ h_pc' = IF Alive(str, stream_task) THEN "stop_wait_stream" ELSE "idle"

\* stop_monitoring up to its first await that suspends
stop_monitoring ==
    /\ is_monitoring' = FALSE
    /\ UNCHANGED <<reddit, monitor_task, stream_task>>
    /\ mon' = Cancel(mon, monitor_task)
    /\ IF Alive(mon, monitor_task)
       THEN /\ h_pc' = "stop_wait_monitor"
            /\ UNCHANGED str
       ELSE StopStream

\* stop_monitoring, line 572: await self.monitor_task is over
StopJoinMonitor ==
    /\ h_pc = "stop_wait_monitor"
    /\ ~Alive(mon, monitor_task)
    /\ StopStream
    /\ UNCHANGED <<registryVars, default_chat_id, reddit, is_monitoring, monitor_task,
                   stream_task, mon, world, pending, sent>>

\* stop_monitoring, line 579: await self.stream_task is over
StopJoinStream ==
    /\ h_pc = "stop_wait_stream"
    /\ ~Alive(str, stream_task)
    /\ h_pc' = "idle"
    /\ UNCHANGED <<registryVars, default_chat_id, reddit, is_monitoring, monitor_task,
                   stream_task, runnerVars>>

\* /startmon
startmon_cmd(ok) ==
    /\ Idle
    /\ start_monitoring(ok)
    /\ UNCHANGED <<registryVars, default_chat_id, world, pending, sent>>

\* /stopmon
stopmon_cmd ==
    /\ Idle
    /\ stop_monitoring
    /\ UNCHANGED <<registryVars, default_chat_id, world, pending, sent>>

\* callback_handler, lines 495-501: the button of the global monitor
toggle_mon(c, ok) ==
    /\ Idle
    /\ groups' = GroupsWith(c)
    /\ chat_order' = OrderWith(c)
    /\ mark_order' = MarksWith(c)
    /\ UNCHANGED <<menu_states, file, save_tick, default_chat_id, world, pending, sent>>
    /\ IF is_monitoring THEN stop_monitoring ELSE start_monitoring(ok)

\* run, lines 633-636: monitoring starts with the bot when a group has keywords;
\* an exception of start_monitoring ends the process
run(ok) ==
    /\ h_pc = "boot"
    /\ UNCHANGED <<registryVars, default_chat_id, world, pending, sent>>
    /\ IF \E c \in DOMAIN groups : groups[c].keywords # {}
       THEN /\ is_monitoring' = TRUE
            /\ SetupAndLaunch(ok, "exited")
       ELSE /\ h_pc' = "idle"
            /\ UNCHANGED <<reddit, is_monitoring, monitor_task, stream_task, mon, str>>

-----------------------------------------------------------------------------
(* Specification of the command layer: the handlers of a bot that is not monitoring *)

FreshRegistry ==
    /\ groups = <<>>
    /\ chat_order = <<>>
    /\ mark_order = <<>>
    /\ menu_states = [c \in ChatIds |-> "none"]
    /\ file = NoFile
    /\ default_chat_id = 0
    /\ save_tick = FALSE

NotStarted ==
    /\ reddit = FALSE
    /\ is_monitoring = FALSE
    /\ monitor_task = 0
    /\ stream_task = 0
    /\ mon = [s \in Slots |-> DeadMon]
    /\ str = [s \in Slots |-> DeadStr]
    /\ pending = [s \in Slots |-> {}]

CmdInit ==
    /\ FreshRegistry
    /\ NotStarted
    /\ h_pc = "idle"
    /\ world = {}
    /\ sent = <<>>

\* the chats that send commands in this specification
CmdChats == {101}

CmdNext ==
    \/ \E c \in CmdChats : start_cmd(c)
    \/ \E c \in CmdChats : menu(c)
    \/ \E c \in CmdChats : status_cmd(c)
    \/ \E c \in CmdChats, data \in RegistryButtons : callback_handler(c, data)
    \/ \E c \in CmdChats, text \in InputTexts, replied \in BOOLEAN : handle_text(c, text, replied)

SpecCmd == CmdInit /\ [][CmdNext]_vars

-----------------------------------------------------------------------------
(* Specification of the runners and of their lifecycle *)

Config(kws, subs, en) ==
    [keywords |-> kws, subreddits |-> subs, processed_items |-> {}, enabled |-> en]

\* the registries that load_data finds in bot_data.json when the bot starts
LoadedRegistries ==
    { (101 :> Config({NameA, NameB}, {ALL}, TRUE)) @@ (102 :> Config({NameB}, {NameA}, TRUE)),
      (101 :> Config({NameA, NameB}, {ALL}, TRUE)) @@ (102 :> Config({NameA}, {ALL}, FALSE)),
      (101 :> Config({}, {ALL}, TRUE)) }

Init ==
    /\ groups \in LoadedRegistries
    /\ chat_order = SortedById({[id |-> c] : c \in DOMAIN groups})
    /\ mark_order = [c \in DOMAIN groups |-> <<>>]
    /\ menu_states = [c \in ChatIds |-> "none"]
    /\ file = Serialized(groups)
    /\ default_chat_id = 0
    /\ save_tick = FALSE
    /\ NotStarted
    /\ h_pc = "boot"
    /\ world = {}
    /\ sent = <<>>

Handlers ==
    \/ \E ok \in BOOLEAN : run(ok)
    \/ \E ok \in BOOLEAN : startmon_cmd(ok)
    \/ stopmon_cmd
    \/ \E c \in ChatIds, ok \in BOOLEAN : toggle_mon(c, ok)
    \/ \E ok \in BOOLEAN : StartResume(ok)
    \/ StopJoinMonitor
    \/ StopJoinStream

PollTask ==
    \/ \E s \in Slots : MonitorLoop(s)
    \/ \E s \in Slots, ok \in BOOLEAN : PollFetch(s, ok)
    \/ \E s \in Slots, ok \in BOOLEAN : PollList(s, ok)
    \/ \E s \in Slots : PollNext(s)
    \/ \E s \in Slots : PollSent(s)
    \/ \E s \in Slots : MonitorCancelled(s)

StreamTask ==
    \/ \E s \in Slots : StreamLoop(s)
    \/ \E s \in Slots, ok \in BOOLEAN : StreamOpen(s, ok)
    \/ \E s \in Slots : StreamDrop(s)
    \/ \E s \in Slots : \E id \in pending[s] : StreamComment(s, id)
    \/ \E s \in Slots : StreamSent(s)
    \/ \E s \in Slots : StreamCancelled(s)

Next ==
    \/ Handlers
    \/ PollTask
    \/ StreamTask
    \/ \E cm \in Comments : Publish(cm)

Spec == Init /\ [][Next]_vars

\* The event loop runs every task that is ready: a cancelled task gets its
\* CancelledError, and a coroutine that awaits a finished task goes on.
LiveSpec ==
    /\ Spec
    /\ WF_vars(\E s \in Slots : MonitorCancelled(s))
    /\ WF_vars(\E s \in Slots : StreamCancelled(s))
    /\ WF_vars(StopJoinMonitor)
    /\ WF_vars(StopJoinStream)

\* The sleeps of the runners end as well: a task that sleeps at the head of its
\* loop goes on.
RunSpec ==
    /\ LiveSpec
    /\ \A s \in Slots : WF_vars(MonitorLoop(s))
    /\ \A s \in Slots : WF_vars(StreamLoop(s))

-----------------------------------------------------------------------------
(* Specification of the trim: a bot that starts with a dedup set near the
   threshold, its stream runner, and a command that saves *)

TrimInit ==
    /\ \E n \in {TrimThreshold - 1, TrimThreshold} :
          /\ groups = (101 :> [Config({NameA}, {ALL}, TRUE) EXCEPT !.processed_items = 1..n])
          /\ mark_order = (101 :> [i \in 1..n |-> i])
    /\ chat_order = <<101>>
    /\ menu_states = [c \in ChatIds |-> "none"]
    /\ file = Serialized(groups)
    /\ default_chat_id = 0
    /\ save_tick = FALSE
    /\ NotStarted
    /\ h_pc = "boot"
    /\ world = {}
    /\ sent = <<>>

TrimNext ==
    \/ run(TRUE)
    \/ start_cmd(101)
    \/ \E s \in Slots : StreamLoop(s)
    \/ \E s \in Slots : StreamOpen(s, TRUE)
    \/ \E s \in Slots : \E id \in pending[s] : StreamComment(s, id)
    \/ \E s \in Slots : StreamSent(s)
    \/ \E cm \in FreshComments : Publish(cm)

SpecTrim == TrimInit /\ [][TrimNext]_vars

-----------------------------------------------------------------------------
(* Specification of the trim under both runners: the bot of the specification
   of the trim with its poll runner as well *)

\* the dedup set of the chat is at the threshold when the bot starts
PollTrimInit ==
    /\ TrimInit
    /\ Cardinality(groups[101].processed_items) = TrimThreshold

PollTrimNext ==
    \/ run(TRUE)
    \/ start_cmd(101)
    \/ \E s \in Slots : MonitorLoop(s)
    \/ \E s \in Slots : PollFetch(s, TRUE)
    \/ \E s \in Slots : PollList(s, TRUE)
    \/ \E s \in Slots : PollNext(s)
    \/ \E s \in Slots : PollSent(s)
    \/ \E s \in Slots : StreamLoop(s)
    \/ \E s \in Slots : StreamOpen(s, TRUE)
    \/ \E s \in Slots : \E id \in pending[s] : StreamComment(s, id)
    \/ \E s \in Slots : StreamSent(s)
    \/ \E cm \in FreshComments : Publish(cm)

SpecPollTrim == PollTrimInit /\ [][PollTrimNext]_vars

-----------------------------------------------------------------------------
(* Specification of the load: the constructor reads bot_data.json, then the
   bot starts and takes /start and /menu *)

\* the lists of a legacy record are at most this long
MaxList == 2

\* the sequences over S of at most n elements
SeqsUpTo(S, n) == UNION {[1..k -> S] : k \in 0..n}

\* the keys that a flat record can lack
OptionalKeys == {"subreddits", "processed_items", "enabled"}

\* the legacy files: flat records with the key keywords and without the key groups
LegacyFiles ==
    {[kind |-> "flat", has |-> H \cup {"keywords"},
      keywords |-> k,
      subreddits |-> IF "subreddits" \in H THEN sb ELSE <<>>,
      processed_items |-> IF "processed_items" \in H THEN pr ELSE <<>>,
      enabled |-> IF "enabled" \in H THEN en ELSE TRUE] :
        H \in SUBSET OptionalKeys,
        k \in SeqsUpTo({NameA, NameB}, MaxList),
        sb \in SeqsUpTo({ALL, NameA}, MaxList),
        pr \in SeqsUpTo({1, 2}, MaxList),
        en \in BOOLEAN}

\* the files of the keyed layout, no file, and a file that json.load rejects
OtherFiles ==
    {Serialized(g) : g \in LoadedRegistries} \cup {NoFile, [kind |-> "corrupt"]}

\* the elements of a list in the order of their first occurrence
RECURSIVE Dedup(_)
Dedup(lst) ==
    IF lst = <<>> THEN <<>>
    ELSE LET x == Head(lst)
             Other(y) == y # x
         IN <<x>> \o Dedup(SelectSeq(Tail(lst), Other))

\* the ids that set(list) of load_data inserts, in the order of the insertions
LoadedMarks(f, d) ==
    IF f.kind = "flat"
    THEN DefaultId(d) :> Dedup(Get(f, "processed_items", <<>>))
    ELSE [c \in DOMAIN LoadedGroups(f, d) |->
             SortedById({[id |-> x] : x \in LoadedGroups(f, d)[c].processed_items})]

\* __init__, lines 48-59: the bot before load_data
LoadInit ==
    /\ groups = <<>>
    /\ chat_order = <<>>
    /\ mark_order = <<>>
    /\ menu_states = [c \in ChatIds |-> "none"]
    /\ file \in LegacyFiles \cup OtherFiles
    /\ default_chat_id \in {0, 101}
    /\ save_tick = FALSE
    /\ NotStarted
    /\ h_pc = "new"
    /\ world = {}
    /\ sent = <<>>

\* __init__, line 61: self.load_data()
load_data ==
    /\ h_pc = "new"
    /\ h_pc' = "boot"
    /\ groups' = LoadedGroups(file, default_chat_id)
    /\ chat_order' = SortedById({[id |-> c] : c \in DOMAIN groups'})
    /\ mark_order' = LoadedMarks(file, default_chat_id)
    /\ UNCHANGED <<menu_states, file, save_tick, default_chat_id, reddit, is_monitoring,
                   monitor_task, stream_task, runnerVars>>

LoadNext ==
    \/ load_data
    \/ \E ok \in BOOLEAN : run(ok)
    \/ \E c \in CmdChats : start_cmd(c)
    \/ \E c \in CmdChats : menu(c)

SpecLoad == LoadInit /\ [][LoadNext]_vars

-----------------------------------------------------------------------------
(* Specification of the matcher: a bot with one destination and one keyword,
   and one comment that its stream runner matches against the keyword *)

\* the longest body and the longest keyword
MaxText == 3
MaxKeyword == 2

\* a word character in lower case, one in upper case, and a non-word character
MatchChars == {"a", "B", "-"}

\* the keywords that bot_data.json can hold for the destination
MatchKeywords == SeqsUpTo(MatchChars, MaxKeyword)

\* the comments that can come: one id, every body
MatchComments ==
    {[id |-> 9, kind |-> "comment", sub |-> <<"b">>, title |-> <<>>, body |-> t] :
        t \in SeqsUpTo(MatchChars, MaxText)}

MatchInit ==
    /\ \E k \in MatchKeywords : groups = (101 :> Config({k}, {ALL}, TRUE))
    /\ chat_order = <<101>>
    /\ mark_order = (101 :> <<>>)
    /\ menu_states = [c \in ChatIds |-> "none"]
    /\ file = Serialized(groups)
    /\ default_chat_id = 0
    /\ save_tick = FALSE
    /\ NotStarted
    /\ h_pc = "boot"
    /\ world = {}
    /\ sent = <<>>

MatchNext ==
    \/ run(TRUE)
    \/ \E s \in Slots : StreamLoop(s)
    \/ \E s \in Slots : StreamOpen(s, TRUE)
    \/ \E cm \in MatchComments : world = {} /\ Publish(cm)
    \/ \E s \in Slots : \E id \in pending[s] : StreamComment(s, id)
    \/ \E s \in Slots : StreamSent(s)

SpecMatch == MatchInit /\ [][MatchNext]_vars

-----------------------------------------------------------------------------
(* Specification of the stream under commands: the stream runner of a bot with
   two destinations, and the command layer changing the registry meanwhile *)

\* a chat that the bot has not seen when it starts
NewChat == 103

\* the buttons that the chats press in this specification
StreamButtons == {"toggle", "clear_sub"}

StreamInit ==
    /\ groups = (101 :> Config({NameA}, {ALL}, TRUE))
                   @@ (102 :> Config({NameA, NameB}, {NameA}, TRUE))
    /\ chat_order = <<101, 102>>
    /\ mark_order = [c \in DOMAIN groups |-> <<>>]
    /\ menu_states = [c \in ChatIds |-> "none"]
    /\ file = Serialized(groups)
    /\ default_chat_id = 0
    /\ save_tick = FALSE
    /\ NotStarted
    /\ h_pc = "boot"
    /\ world = {}
    /\ sent = <<>>

StreamNext ==
    \/ run(TRUE)
    \/ menu(NewChat)
    \/ \E c \in ChatIds, data \in StreamButtons : callback_handler(c, data)
    \/ \E s \in Slots : StreamLoop(s)
    \/ \E s \in Slots, ok \in BOOLEAN : StreamOpen(s, ok)
    \/ \E s \in Slots : StreamDrop(s)
    \/ \E s \in Slots : \E id \in pending[s] : StreamComment(s, id)
    \/ \E s \in Slots : StreamSent(s)
    \/ \E cm \in Comments : Publish(cm)

SpecStream == StreamInit /\ [][StreamNext]_vars

-----------------------------------------------------------------------------
(* Specification of the poll under commands: the poll runner of a bot with two
   destinations, and the first of them changing its subscription meanwhile *)

\* the buttons that the chat presses in this specification
PollButtons == {"toggle", "add_sub", "remove_sub"}

\* the texts that the chat sends in this specification
PollTexts == {<<"a">>}

PollCmdInit ==
    /\ groups = (101 :> Config({NameA}, {NameB}, TRUE))
                   @@ (102 :> Config({NameB}, {ALL}, TRUE))
    /\ chat_order = <<101, 102>>
    /\ mark_order = [c \in DOMAIN groups |-> <<>>]
    /\ menu_states = [c \in ChatIds |-> "none"]
    /\ file = Serialized(groups)
    /\ default_chat_id = 0
    /\ save_tick = FALSE
    /\ NotStarted
    /\ h_pc = "boot"
    /\ world = {}
    /\ sent = <<>>

PollCmdNext ==
    \/ run(TRUE)
    \/ \E data \in PollButtons : callback_handler(101, data)
    \/ \E text \in PollTexts : handle_text(101, text, TRUE)
    \/ \E s \in Slots : MonitorLoop(s)
    \/ \E s \in Slots : PollFetch(s, TRUE)
    \/ \E s \in Slots : PollList(s, TRUE)
    \/ \E s \in Slots : PollNext(s)
    \/ \E s \in Slots : PollSent(s)
    \/ \E cm \in Comments : Publish(cm)

SpecPollCmd == PollCmdInit /\ [][PollCmdNext]_vars

-----------------------------------------------------------------------------
(* Specification of the sends: both runners of the bot with two destinations,
   and the first destination adding and removing a source meanwhile *)

\* the buttons that the chat presses in this specification
SendButtons == {"add_sub", "remove_sub"}

SendNext ==
    \/ run(TRUE)
    \/ \E data \in SendButtons : callback_handler(101, data)
    \/ \E text \in PollTexts : handle_text(101, text, TRUE)
    \/ \E s \in Slots : MonitorLoop(s)
    \/ \E s \in Slots : PollFetch(s, TRUE)
    \/ \E s \in Slots : PollList(s, TRUE)
    \/ \E s \in Slots : PollNext(s)
    \/ \E s \in Slots : PollSent(s)
    \/ \E s \in Slots : StreamLoop(s)
    \/ \E s \in Slots : StreamOpen(s, TRUE)
    \/ \E s \in Slots : \E id \in pending[s] : StreamComment(s, id)
    \/ \E s \in Slots : StreamSent(s)
    \/ \E cm \in Comments : Publish(cm)

SpecSend == PollCmdInit /\ [][SendNext]_vars

-----------------------------------------------------------------------------
(* Properties of the command layer *)

\* C7: after any sequence of add-sources, remove-sources and clear-sources
\* commands on a subscription created by get_group_config, its subreddits set
\* is never empty and is either exactly {'all'} or a non-empty set of concrete
\* names without 'all'.
C7_SourcesNeverEmpty ==
    \A c \in DOMAIN groups :
        /\ groups[c].subreddits # {}
        /\ groups[c].subreddits = {ALL} \/ ALL \notin groups[c].subreddits

\* C8: a step that adds to the sources {'all'} leaves exactly the concrete
\* names that were added, and a step that removes the last concrete source
\* leaves exactly {'all'}.
C8_SentinelRule ==
    [][\A c \in DOMAIN groups :
          LET before == groups[c].subreddits
              after == groups'[c].subreddits
          IN /\ (menu_states[c] = "adding_subs" /\ before = {ALL} /\ after # before)
                    => (after # {} /\ ALL \notin after)
             /\ (menu_states[c] = "removing_subs" /\ before \ {ALL} # {} /\ after \ {ALL} = {})
                    => after = {ALL}]_vars

-----------------------------------------------------------------------------
(* Properties of the runners *)

\* C1: whatever the interleaving of the poll runner and the stream runner, at
\* most one send_message(d, i) completes for a chat d and an item i (no trim
\* happens in this specification: the sets stay far below the threshold).
C1_AtMostOneSend ==
    \A c \in ChatIds, x \in Comments \cup Posts : SentCount(c, x.id) <= 1

\* C2: in one pass of the stream runner over the groups for one comment, a chat
\* is sent the comment at most once, even when several of its keywords match:
\* no send_message is started for a chat that this pass has already sent to.
C2_OneSendPerChat ==
    \A s \in Slots : str[s].pc = "send" => str[s].chat \notin str[s].fired

\* chat 101 has two keywords that match comment 1, it was sent the comment, and
\* the pass has gone on to chat 102
C2_Witness ==
    \E s \in Slots :
        /\ str[s].pc = "send"
        /\ str[s].item = Comment1.id
        /\ str[s].chat = 102
        /\ 101 \in str[s].fired
        /\ Cardinality({k \in groups[101].keywords :
                           contains_keyword(Comment1.body, k)}) = 2

StopInProgress == h_pc \in {"stop_wait_monitor", "stop_wait_stream"}
Stopped == h_pc = "idle" /\ ~is_monitoring
NoTaskAlive == \A s \in Slots : mon[s].st = "dead" /\ str[s].st = "dead"

\* C3: a call of stop_monitoring returns, and once it has returned no poll task
\* and no stream task is alive and no send_message completes until monitoring
\* is started again.
C3_StopTerminates ==
    /\ StopInProgress ~> h_pc = "idle"
    /\ [](Stopped => NoTaskAlive)
    /\ [][Stopped => sent' = sent]_vars

\* stop_monitoring has returned after both runners had run and sent
C3_Witness ==
    /\ Stopped
    /\ monitor_task # 0
    /\ stream_task # 0
    /\ \E c \in ChatIds : SentCount(c, Comment1.id) >= 1 /\ SentCount(c, Post3.id) >= 1

\* C4: when no start_monitoring or stop_monitoring call is in progress,
\* is_monitoring holds exactly when the poll task and the stream task are alive,
\* and a runner is alive exactly when the other one is.
C4_MonitoringIffTasks ==
    h_pc = "idle" =>
        /\ is_monitoring <=> (Alive(mon, monitor_task) /\ Alive(str, stream_task))
        /\ (\E s \in Slots : mon[s].st = "alive") <=> (\E s \in Slots : str[s].st = "alive")

\* a step in which start_monitoring is left by the exception of setup_reddit
FailedStart ==
    /\ h_pc' = "idle"
    /\ mon' = mon
    /\ str' = str
    /\ \/ h_pc = "start_setup"
       \/ h_pc = "idle" /\ ~is_monitoring /\ is_monitoring'

\* C5: when setup_reddit raises in start_monitoring, monitoring has not started:
\* is_monitoring is false afterwards (so that a later start_monitoring can start).
C5_FailedStartLeavesStopped ==
    [][FailedStart => ~is_monitoring']_vars

\* C6: start_monitoring while is_monitoring changes nothing, so at most one poll
\* task and one stream task are alive at any time, and stop_monitoring while
\* stopped changes nothing and returns at once.
C6_StartStopIdempotent ==
    /\ [](Cardinality({s \in Slots : mon[s].st = "alive"}) <= 1)
    /\ [](Cardinality({s \in Slots : str[s].st = "alive"}) <= 1)
    /\ [][(h_pc = "idle" /\ is_monitoring /\ is_monitoring') =>
              /\ h_pc' = "idle"
              /\ <<reddit, monitor_task, stream_task>>' = <<reddit, monitor_task, stream_task>>
              /\ \A s \in Slots : mon'[s].st = "alive" => mon[s].st = "alive"
              /\ \A s \in Slots : str'[s].st = "alive" => str[s].st = "alive"]_vars
    /\ [][(Stopped /\ ~is_monitoring') =>
              /\ h_pc' = "idle"
              /\ <<reddit, monitor_task, stream_task, mon, str>>'
                    = <<reddit, monitor_task, stream_task, mon, str>>]_vars

\* monitoring runs with both tasks alive, the stream runner has sent, and the
\* handler is free to take another /startmon
C6_Witness ==
    /\ h_pc = "idle"
    /\ is_monitoring
    /\ Alive(mon, monitor_task)
    /\ Alive(str, stream_task)
    /\ \E c \in ChatIds : SentCount(c, Comment1.id) >= 1

-----------------------------------------------------------------------------
(* Properties of the dedup store *)

Saved == save_tick' # save_tick

\* C9 as claimed: in every state the processed_items of every chat hold at most
\* 5000 ids.
C9_NeverAboveCap ==
    \A c \in DOMAIN groups : Cardinality(groups[c].processed_items) <= TrimThreshold

\* C9 as amended: when save_data returns, the processed_items of every chat hold
\* at most 5000 ids.
C9_AtMostCapAfterSave ==
    [][Saved =>
         \A c \in DOMAIN groups' :
             Cardinality(groups'[c].processed_items) <= TrimThreshold]_vars

\* a save has just cut a set down, and the file holds the cut set
C9_Witness ==
    \E c \in DOMAIN groups :
        /\ Cardinality(groups[c].processed_items) = TrimKeep
        /\ file.groups[c].processed_items = groups[c].processed_items

C11_OldestEvictedFirst ==
    [][Saved =>
         \A c \in DOMAIN groups :
             LET mo == mark_order[c]
                 kept == groups'[c].processed_items
             IN kept = {mo[k] : k \in (Len(mo) - Cardinality(kept) + 1)..Len(mo)}]_vars

-----------------------------------------------------------------------------
(* Properties of the send-and-mark step *)

\* C12: when a send_message(d, i) of a runner that is not cancelled returns,
\* whether the message went out or not, i is in the processed_items of d.
C12_MarkedAfterAttempt ==
    [][\A k \in DOMAIN sent' :
          (k \notin DOMAIN sent \/ sent'[k] > sent[k])
              => k[2] \in groups'[k[1]].processed_items]_vars

-----------------------------------------------------------------------------
(* Properties of persistence *)

\* C13: when a handler of the command layer has returned, the file holds the
\* registry: loading it gives the destinations of self.groups with the same
\* keywords, sources and enabled flag.
C13_SavedBeforeReturn ==
    h_pc = "idle" =>
        LET p == LoadedGroups(file, default_chat_id)
        IN /\ DOMAIN p = DOMAIN groups
           /\ \A c \in DOMAIN groups :
                 /\ p[c].keywords = groups[c].keywords
                 /\ p[c].subreddits = groups[c].subreddits
                 /\ p[c].enabled = groups[c].enabled

\* the legacy record with all of its four keys
FullLegacy == file.kind = "flat" /\ file.has = OptionalKeys \cup {"keywords"}

\* C15: after load_data has read a legacy flat record, the registry has exactly
\* one destination, keyed by the configured default chat id, whose keywords,
\* sources, processed items and enabled flag are those of the record.
C15_LegacyMigration ==
    (h_pc = "boot" /\ FullLegacy) =>
        /\ Cardinality(DOMAIN groups) = 1
        /\ default_chat_id # 0 => DOMAIN groups = {default_chat_id}
        /\ \A c \in DOMAIN groups :
              /\ groups[c].keywords = {file.keywords[i] : i \in DOMAIN file.keywords}
              /\ groups[c].subreddits = {file.subreddits[i] : i \in DOMAIN file.subreddits}
              /\ groups[c].processed_items =
                    {file.processed_items[i] : i \in DOMAIN file.processed_items}
              /\ groups[c].enabled = file.enabled

\* a legacy record of a disabled destination with a keyword, a concrete source
\* and a processed id has been loaded for the configured chat 101
C15_Witness ==
    /\ h_pc = "boot"
    /\ FullLegacy
    /\ default_chat_id = 101
    /\ DOMAIN groups = {101}
    /\ groups[101].keywords = {NameA, NameB}
    /\ groups[101].subreddits = {NameA}
    /\ groups[101].processed_items = {2}
    /\ ~groups[101].enabled

-----------------------------------------------------------------------------
(* Properties of the matcher *)

\* the keyword k stands in the text t at offset p with a non-word character or
\* an edge of the text on either side
WholeWordAt(t, k, p) ==
    /\ SubSeq(t, p + 1, p + Len(k)) = k
    /\ p = 0 \/ ~IsWordChar(t[p])
    /\ p + Len(k) = Len(t) \/ ~IsWordChar(t[p + Len(k) + 1])

\* the match as claimed: neither argument is empty and the case-folded keyword
\* stands somewhere in the case-folded text as a whole word
ClaimedMatch(text, keyword) ==
    /\ text # <<>>
    /\ keyword # <<>>
    /\ \E p \in 0..(Len(text) - Len(keyword)) : WholeWordAt(Lower(text), Lower(keyword), p)

\* C14: the stream runner, handed a comment, starts a send for the destination
\* exactly when a keyword of the destination matches the body as claimed, that
\* is, contains_keyword returns what the claim says for every body and keyword.
C14_WholeWordMatch ==
    [][\A s \in Slots :
          (/\ str[s].pc = "wait"
           /\ str'[s].pc \in {"wait", "send"}
           /\ pending'[s] # pending[s]
           /\ pending'[s] \subseteq pending[s])
          => LET body == ItemOf(CHOOSE id \in pending[s] : id \notin pending'[s]).body
             IN str'[s].pc = "send"
                   <=> \E k \in groups[101].keywords : ClaimedMatch(body, k)]_vars

-----------------------------------------------------------------------------
(* Properties of the registry *)

\* C16: get_group_config of a chat without a subscription adds one with no
\* keywords, the sources {'all'}, no processed ids and enabled, and leaves the
\* others as they are; get_group_config of a chat with a subscription changes
\* nothing; and no step of the bot takes a destination out of the registry.
C16_LazyCreateNeverDelete ==
    /\ [](\A c \in ChatIds :
             LET g == GroupsWith(c)
             IN IF c \in DOMAIN groups
                THEN g = groups
                ELSE /\ DOMAIN g = DOMAIN groups \cup {c}
                     /\ g[c] = [keywords |-> {}, subreddits |-> {ALL},
                                processed_items |-> {}, enabled |-> TRUE]
                     /\ \A d \in DOMAIN groups : g[d] = groups[d])
    /\ [][DOMAIN groups \subseteq DOMAIN groups']_vars
    /\ [][\A c \in DOMAIN groups' \ DOMAIN groups :
             /\ groups'[c].keywords = {}
             /\ groups'[c].subreddits = {ALL}
             /\ groups'[c].processed_items = {}]_vars

\* the subscription of chat 101 differs from a fresh one in its keywords, its
\* sources and its flag, and the chat has pressed a button since
C16_Witness ==
    /\ 101 \in DOMAIN groups
    /\ groups[101].keywords # {}
    /\ groups[101].subreddits # {ALL}
    /\ ~groups[101].enabled
    /\ menu_states[101] = "removing_keywords"

-----------------------------------------------------------------------------
(* Properties of the poll cycle *)

\* the <<chat, phase, source>> that a cycle over the registry g has to fetch
PollTargets(g) ==
    UNION {{<<c, ph, sub>> : ph \in {"posts", "comments"}, sub \in g[c].subreddits} :
              c \in {d \in DOMAIN g : g[d].enabled /\ g[d].keywords # {}}}

-----------------------------------------------------------------------------
(* Properties of the stream runner *)

\* the chat d is to be sent the comment id: it is enabled, it watches the
\* subreddit of the comment or 'all', one of its keywords matches the body, and
\* the id is not among its processed items
Qualifies(g, d, id) ==
    /\ g[d].enabled
    /\ ALL \in g[d].subreddits \/ Lower(ItemOf(id).sub) \in g[d].subreddits
    /\ \E k \in g[d].keywords : contains_keyword(ItemOf(id).body, k)
    /\ id \notin g[d].processed_items

\* the chats at a position of the dict after pos that are to be sent the comment
QualifiedAfter(g, co, pos, id) ==
    {j \in (pos + 1)..Len(co) : Qualifies(g, co[j], id)}

\* the stream task s goes from its evaluation of the groups after position pos
\* to the send for the first chat after pos that is to be sent the comment
SendsToFirst(s, pos, id) ==
    LET q == QualifiedAfter(groups', chat_order', pos, id)
    IN q # {} =>
          /\ str'[s].pc = "send"
          /\ str'[s].item = id
          /\ str'[s].idx \in q
          /\ \A j \in q : str'[s].idx <= j

\* C18: for a comment that the stream yields, every chat that is to be sent the
\* comment when the loop over the groups comes to it is sent it, whatever
\* happened for the chats before it: when the stream task takes up a comment,
\* and when a send_message of the task returns, the task goes on to the send
\* for the first chat further on in the dict that is to be sent the comment.
C18_FanOutIndependent ==
    [][\A s \in Slots :
          /\ (/\ Runnable(str[s])
              /\ is_monitoring
              /\ str[s].pc = "wait"
              /\ str'[s].pc # "sleep"
              /\ pending'[s] # pending[s]
              /\ pending'[s] \subseteq pending[s])
             => SendsToFirst(s, 0, CHOOSE id \in pending[s] : id \notin pending'[s])
          /\ (/\ Runnable(str[s])
              /\ str[s].pc = "send"
              /\ sent' # sent)
             => SendsToFirst(s, str[s].idx, str[s].item)]_vars

\* the union of the sources of the enabled chats
EnabledSources == UNION {groups[c].subreddits : c \in {d \in DOMAIN groups : groups[d].enabled}}

Connecting(t) == t.st = "alive" /\ t.pc \in {"open", "wait", "send"}

\* C20: when the stream task comes to the head of its loop with monitoring on,
\* it sleeps if no enabled chat has a source, and otherwise goes on to open a
\* stream over exactly the sources of the enabled chats of that moment; the
\* sources of the stream stay the same until the task is back at the head of
\* its loop, whatever the command layer does to the registry; a task that
\* sleeps has no stream, and the stream yields comments of its sources only.
C20_SourcesFixedAtConnect ==
    /\ [][\A s \in Slots :
             (/\ Runnable(str[s])
              /\ is_monitoring
              /\ str[s].pc \in {"start", "sleep"}
              /\ str'[s] # str[s]
              /\ ~str'[s].cancel)
             => IF EnabledSources = {}
                THEN str'[s].pc = "sleep"
                ELSE str'[s].pc = "open" /\ str'[s].subs = EnabledSources]_vars
    /\ [][\A s \in Slots :
             (Connecting(str[s]) /\ Connecting(str'[s])) => str'[s].subs = str[s].subs]_vars
    /\ [](\A s \in Slots :
             /\ Connecting(str[s]) => str[s].subs # {}
             /\ ~Connecting(str[s]) => pending[s] = {}
             /\ \A id \in pending[s] :
                   \E sub \in str[s].subs : sub = ALL \/ sub = Lower(ItemOf(id).sub))

\* a stream is open over sources that are no longer the sources of the enabled
\* chats: the registry has changed since the stream was opened
C20_Witness ==
    \E s \in Slots :
        /\ str[s].st = "alive"
        /\ str[s].pc = "wait"
        /\ pending[s] # {}
        /\ EnabledSources # {}
        /\ str[s].subs # EnabledSources

-----------------------------------------------------------------------------
(* Properties of the runners' loops *)

\* C19: while monitoring is on, no step ends a poll task or a stream task that
\* is not cancelled, whether a fetch, a listing or the opening of the stream
\* raises or the stream drops; and no task sleeps at the head of its loop for
\* ever: it takes the next turn of the loop again and again (or is cancelled).
C19_RunnersNeverTerminate ==
    /\ [][\A s \in Slots :
             (is_monitoring /\ Runnable(mon[s]) /\ ~mon'[s].cancel) => mon'[s].st = "alive"]_vars
    /\ [][\A s \in Slots :
             (is_monitoring /\ Runnable(str[s]) /\ ~str'[s].cancel) => str'[s].st = "alive"]_vars
    /\ \A s \in Slots :
          \/ []<>~(str[s].st = "alive" /\ str[s].pc = "sleep")
          \/ []<><<StreamLoop(s)>>_vars
    /\ \A s \in Slots :
          \/ []<>~(mon[s].st = "alive" /\ mon[s].pc = "sleep")
          \/ []<><<MonitorLoop(s)>>_vars

\* monitoring is on, the stream task sleeps after a failed opening or a drop
\* that followed a send, and a fetch or a listing of the poll task has raised
C19_Witness ==
    /\ is_monitoring
    /\ h_pc = "idle"
    /\ \E s \in Slots : Runnable(str[s]) /\ str[s].pc = "sleep"
    /\ \E s \in Slots : Runnable(mon[s]) /\ mon[s].erred
    /\ \E c \in ChatIds : SentCount(c, Comment1.id) >= 1

-----------------------------------------------------------------------------
(* Properties of the poll runner under the command layer *)

\* the step of poll task s in which a send_message of the task has returned
PollMarks(s) ==
    /\ Runnable(mon[s])
    /\ mon[s].pc = "send"
    /\ mon'[s].st = "alive"
    /\ mon'[s].pc # "send"

\* C21: the step in which the poll runner marks an id for a chat puts the id
\* into the processed_items that the registry holds for the chat, where the
\* stream runner and save_data read it, also when a handler has saved and
\* trimmed the set while the pass was suspended; and an id leaves the
\* processed_items of a chat only in a step that saves.
C21_PollMarksReachRegistry ==
    /\ [][\A s \in Slots :
             PollMarks(s) => mon[s].item \in groups'[mon[s].chat].processed_items]_vars
    /\ [][\A c \in DOMAIN groups :
             groups[c].processed_items \subseteq groups'[c].processed_items \/ Saved]_vars

\* a runner starts a send_message to a chat in this step
PollStartsSend(s) == mon[s].pc # "send" /\ mon'[s].st = "alive" /\ mon'[s].pc = "send"
StreamStartsSend(s) ==
    /\ str'[s].st = "alive"
    /\ str'[s].pc = "send"
    /\ str[s].pc # "send" \/ str[s].chat # str'[s].chat \/ str[s].item # str'[s].item

\* C22: no runner starts a send_message to a chat whose enabled flag is false,
\* also when the chat was disabled after the poll pass over it had begun.
C22_NoSendWhileDisabled ==
    [][\A s \in Slots :
          /\ PollStartsSend(s) => groups'[mon'[s].chat].enabled
          /\ StreamStartsSend(s) => groups'[str'[s].chat].enabled]_vars

\* the chats of a list that a cycle has to search
ToSearch(g, todo) == {c \in Range(todo) : g[c].enabled /\ g[c].keywords # {}}

\* C23: while monitoring is on, a poll task that is not cancelled leaves a pass
\* over a chat for its sleep only at the end of a cycle: the step saves, and no
\* enabled chat with keywords is left unsearched, whatever the command layer
\* did to the keywords and to the sources of the chat during the pass.
C23_MutationNeverAborts ==
    [][\A s \in Slots :
          (/\ Runnable(mon[s])
           /\ InPass(mon[s])
           /\ is_monitoring
           /\ mon'[s].st = "alive"
           /\ mon'[s].pc = "sleep")
          => /\ Saved
             /\ ToSearch(groups, mon'[s].todo) = {}]_vars

-----------------------------------------------------------------------------
(* Properties of the sends *)

\* the <<chat, item id>> whose send_message returns in this step
Returning ==
    {k \in DOMAIN sent' : k \notin DOMAIN sent \/ sent'[k] > sent[k]}

\* C24: the step in which a send_message(d, i) of a runner returns changes
\* nothing in the registry but the processed_items of d, to which it adds
\* nothing but i: the destinations, their keywords, sources and enabled flags
\* and the processed_items of the other destinations stay as they are; and an
\* id is in the processed_items of a destination only if it was sent to that
\* destination, so a send to one destination never keeps the item from another.
C24_SendMarksOnlyItsChat ==
    /\ [][\A k \in Returning :
             /\ DOMAIN groups' = DOMAIN groups
             /\ chat_order' = chat_order
             /\ \A c \in DOMAIN groups :
                   /\ groups'[c].keywords = groups[c].keywords
                   /\ groups'[c].subreddits = groups[c].subreddits
                   /\ groups'[c].enabled = groups[c].enabled
                   /\ groups[c].processed_items \subseteq groups'[c].processed_items
                   /\ groups'[c].processed_items \subseteq
                         IF c = k[1] THEN groups[c].processed_items \cup {k[2]}
                         ELSE groups[c].processed_items]_vars
    /\ [](\A c \in DOMAIN groups :
             \A id \in groups[c].processed_items : SentCount(c, id) >= 1)

\* both destinations were sent comment 1, one of them by the poll runner, and
\* each holds it in its own processed_items
C24_Witness ==
    /\ SentCount(101, Comment1.id) >= 1
    /\ SentCount(102, Comment1.id) >= 1
    /\ Comment1.id \in groups[101].processed_items
    /\ Comment1.id \in groups[102].processed_items
    /\ SentCount(101, Post3.id) >= 1
    /\ Post3.id \notin groups[102].processed_items

\* the matcher accepts the keyword against the text of the item: title or body
\* of a post, body of a comment
Accepted(item, keyword) ==
    IF item.kind = "post"
    THEN contains_keyword(item.title, keyword) \/ contains_keyword(item.body, keyword)
    ELSE contains_keyword(item.body, keyword)

\* a destination with the sources S watches the subreddit of display name d
Watches(S, d) == \E sub \in S : InSource(d, sub)

\* C25: when a runner starts a send_message to a destination for an item and a
\* keyword, the matcher accepts the keyword against the text of the item (title
\* or body of a polled post, body of a comment) and the destination watches the
\* subreddit of the item or 'all'.
C25_EverySendJustified ==
    [][\A s \in Slots :
          /\ PollStartsSend(s) =>
                /\ Accepted(ItemOf(mon'[s].item), mon'[s].kw)
                /\ Watches(groups'[mon'[s].chat].subreddits, ItemOf(mon'[s].item).sub)
          /\ StreamStartsSend(s) =>
                /\ Accepted(ItemOf(str'[s].item), str'[s].kw)
                /\ Watches(groups'[str'[s].chat].subreddits, ItemOf(str'[s].item).sub)]_vars

====
